---- MODULE Spec2Model ----
(***************************************************************************)
(* Model of fix-illumos-compat.py: one run of the patcher reads the target *)
(* file, applies the rules 1a, 1b, 1c, 2, 3, 4, 5, 6a, 6b, 7a, 7b to the   *)
(* in-memory buffer, and writes the buffer back when it changed.           *)
(*                                                                         *)
(* Text is a sequence of lexemes.  Every lexeme is the piece of text it    *)
(* stands for, and every literal of the source is written as the sequence  *)
(* of lexemes whose concatenation is that literal.  str.replace, str.count,*)
(* `in`, re.findall and re.sub are computed on lexeme sequences the way    *)
(* CPython computes them on characters: leftmost, non-overlapping.         *)
(***************************************************************************)
EXTENDS Integers, Sequences, FiniteSets, TLC

VARIABLES status, target, pc, content, original, fixes, stdout, reads, wopens, run

vars == <<status, target, pc, content, original, fixes, stdout, reads, wopens, run>>

(***************************************************************************)
(* Bounds                                                                  *)
(***************************************************************************)
MaxFrags == 3

MaxRuns == 2

(***************************************************************************)
(* Lexemes                                                                 *)
(***************************************************************************)
NL == "\n"

WS == "            "

Digits == {"0", "3", "6", "8"}

\* \w of the re module: letters, digits and the underscore
WordChars == Digits \cup {"a", "b", "e"}

\* ord() of the one-character lexemes, the order sorted() uses
CodePoint == [c \in WordChars |->
                CASE c = "0" -> 48 [] c = "3" -> 51 [] c = "6" -> 54
                  [] c = "8" -> 56 [] c = "a" -> 97 [] c = "b" -> 98
                  [] c = "e" -> 101]

(***************************************************************************)
(* The literals of the rules                                               *)
(***************************************************************************)
old_1a == << "    # Disk information",
             NL,
             "    if command -v format >/dev/null 2>&1; then\n        echo \"=== Disk Devices ===\" | tee -a \"$OUTPUT_FILE\"\n        echo | format 2>/dev/null | grep \"^[0-9]\" | tee -a \"$OUTPUT_FILE\"\n        echo \"\" | tee -a \"$OUTPUT_FILE\"\n    fi" >>

new_1a == << "    # Disk information",
             " (use iostat -En; interactive format hangs without a tty)",
             NL,
             "    if command -v iostat >/dev/null 2>&1; then\n        echo \"=== Disk Devices ===\" | tee -a \"$OUTPUT_FILE\"\n        iostat -En 2>/dev/null | tee -a \"$OUTPUT_FILE\"\n        echo \"\" | tee -a \"$OUTPUT_FILE\"\n    fi" >>

old_1b == << "        local disk_list=$(echo \"\" | format 2>/dev/null | grep \"^[[:space:]]*[0-9]\" | awk '{print $2}')" >>

new_1b == << "        local disk_list=\"\"",
             NL,
             "        for _d in $(iostat -En 2>/dev/null | awk '/^c[0-9]/{print $1}'); do\n            iostat -En \"$_d\" 2>/dev/null | grep -qi \"CD-ROM\" && continue\n            disk_list=\"$disk_list $_d\"\n        done" >>

old_1c == << "        echo \"\" | format 2>/dev/null | egrep \"^[0-9]|c[0-9]\"",
             " | tee -a \"$OUTPUT_FILE\"" >>

new_1c == << "        iostat -En 2>/dev/null | egrep \"^c[0-9]|Size:|Vendor:\"",
             " | tee -a \"$OUTPUT_FILE\"" >>

old_echo == << "|| echo \"0\")" >>

new_echo == << "|| true)" >>

\* f'(({var}++))'
old_inc(var) == << "((" >> \o var \o << "++", "))" >>

\* f'{var}=$(({var} + 1))'
new_inc(var) == var \o << "=$", "((" >> \o var \o << " + 1", "))" >>

old_guard == << WS, "[[ -c \"$disk_dev\" ]] || continue", NL,
                WS, NL,
                WS, "local disk_base=$(basename \"$disk_dev\" | sed 's/s2$//')" >>

\* variant: the replacement keeps the 12 spaces of the whitespace-only line
new_guard_KeepsSpaces ==
    << WS, "[[ -c \"$disk_dev\" ]] || continue", NL,
       WS, NL,
       WS, "local disk_base=$(basename \"$disk_dev\" | sed 's/s2$//')", NL,
       WS, "# Skip CD-ROM / non-disk devices", NL,
       WS, "iostat -En \"$disk_base\" 2>/dev/null | grep -qi \"CD-ROM\" && continue" >>

new_guard == << WS, "[[ -c \"$disk_dev\" ]] || continue", NL,
                NL,
                WS, "local disk_base=$(basename \"$disk_dev\" | sed 's/s2$//')", NL,
                WS, "# Skip CD-ROM / non-disk devices", NL,
                WS, "iostat -En \"$disk_base\" 2>/dev/null | grep -qi \"CD-ROM\" && continue" >>

old_sort == << "du -sh /* 2>/dev/null | sort -rh | head -10" >>

new_sort == << "du -sk /* 2>/dev/null | sort -rn | head -10" >>

old_ant == << "netstat ", "-ant", " 2>/dev/null" >>

new_ant == << "netstat ", "-an -f inet -P tcp", " 2>/dev/null" >>

old_tuln == << "netstat ", "-tuln", " 2>/dev/null" >>

new_tuln == << "netstat ", "-an -f inet", " 2>/dev/null" >>

\* variant: the rewritten pattern lacks the [[:space:]] terminator
fix_port_grep_NoSpace(port) == << "grep \"", "[.]" >> \o port \o << "\"" >>

\* f'grep "[.]{port}[[:space:]]"'
fix_port_grep(port) == << "grep \"", "[.]" >> \o port \o << "[[:space:]]", "\"" >>

old_egrep == << "e", "grep \"", ":", "3", "3", "0", "6",
                "|:5432|:1521|:1433|:27017", "\"" >>

new_egrep == << "e", "grep \"", "[.]", "3", "3", "0", "6", "[[:space:]]",
                "|[.]5432[[:space:]]|[.]1521[[:space:]]|[.]1433[[:space:]]|[.]27017[[:space:]]",
                "\"" >>

(***************************************************************************)
(* str and re operations                                                   *)
(***************************************************************************)
\* s[i:].startswith(pat)
StartsAt(s, pat, i) ==
    /\ i >= 1
    /\ i + Len(pat) - 1 <= Len(s)
    /\ SubSeq(s, i, i + Len(pat) - 1) = pat

\* pat in s
Contains(s, pat) == \E i \in 1..Len(s) : StartsAt(s, pat, i)

\* s.count(pat): leftmost non-overlapping occurrences
RECURSIVE CountFrom(_, _, _)
CountFrom(s, pat, i) ==
    IF i > Len(s) THEN 0
    ELSE IF StartsAt(s, pat, i) THEN 1 + CountFrom(s, pat, i + Len(pat))
    ELSE CountFrom(s, pat, i + 1)

\* variant: int(pat in s) in place of s.count(pat)
StrCount_Bool(s, pat) == IF \E i \in 1..Len(s) : StartsAt(s, pat, i) THEN 1 ELSE 0

StrCount(s, pat) == CountFrom(s, pat, 1)

\* s.replace(old, new, max): max < 0 replaces every occurrence
RECURSIVE ReplaceFrom(_, _, _, _, _)
ReplaceFrom(s, old, new, max, i) ==
    IF i > Len(s) THEN << >>
    ELSE IF max # 0 /\ StartsAt(s, old, i)
         THEN new \o ReplaceFrom(s, old, new, max - 1, i + Len(old))
         ELSE << s[i] >> \o ReplaceFrom(s, old, new, max, i + 1)

StrReplace(s, old, new) == ReplaceFrom(s, old, new, -1, 1)

StrReplaceFirst(s, old, new) == ReplaceFrom(s, old, new, 1, 1)

\* length of the longest run of lexemes of class cls that starts at i
RECURSIVE RunLen(_, _, _)
RunLen(s, cls, i) ==
    IF i <= Len(s) /\ s[i] \in cls THEN 1 + RunLen(s, cls, i + 1) ELSE 0

\* match of \(\((\w+)\+\+\)\) at i: the index of its last lexeme, 0 if none
IncMatchEnd(s, i) ==
    LET r == RunLen(s, WordChars, i + 1)
    IN IF /\ i + r + 2 <= Len(s)
          /\ s[i] = "(("
          /\ r >= 1
          /\ s[i + r + 1] = "++"
          /\ s[i + r + 2] = "))"
       THEN i + r + 2 ELSE 0

\* re.findall(r'\(\((\w+)\+\+\)\)', s)
RECURSIVE FindAllFrom(_, _)
FindAllFrom(s, i) ==
    IF i > Len(s) THEN << >>
    ELSE LET e == IncMatchEnd(s, i)
         IN IF e > 0 THEN << SubSeq(s, i + 1, e - 2) >> \o FindAllFrom(s, e + 1)
            ELSE FindAllFrom(s, i + 1)

FindAll(s) == FindAllFrom(s, 1)

\* match of grep ":(\d+)" at i: the index of its last lexeme, 0 if none
PortMatchEnd(s, i) ==
    LET r == RunLen(s, Digits, i + 2)
    IN IF /\ i + r + 2 <= Len(s)
          /\ s[i] = "grep \""
          /\ s[i + 1] = ":"
          /\ r >= 1
          /\ s[i + r + 2] = "\""
       THEN i + r + 2 ELSE 0

\* re.sub(r'grep ":(\d+)"', fix_port_grep, s)
RECURSIVE SubFrom(_, _)
SubFrom(s, i) ==
    IF i > Len(s) THEN << >>
    ELSE LET e == PortMatchEnd(s, i)
         IN IF e > 0 THEN fix_port_grep(SubSeq(s, i + 2, e - 1)) \o SubFrom(s, e + 1)
            ELSE << s[i] >> \o SubFrom(s, i + 1)

ReSub(s) == SubFrom(s, 1)

\* a < b for two variable names, as Python compares str
RECURSIVE StrLess(_, _)
StrLess(a, b) ==
    IF b = << >> THEN FALSE
    ELSE IF a = << >> THEN TRUE
    ELSE IF a[1] = b[1] THEN StrLess(Tail(a), Tail(b))
    ELSE CodePoint[a[1]] < CodePoint[b[1]]

\* sorted(S)
RECURSIVE Sorted(_)
Sorted(S) ==
    IF S = {} THEN << >>
    ELSE LET m == CHOOSE x \in S : \A y \in S \ {x} : StrLess(x, y)
         IN << m >> \o Sorted(S \ {m})

Range(s) == { s[i] : i \in 1..Len(s) }

(***************************************************************************)
(* Report entries and printed status                                       *)
(***************************************************************************)
\* One string appended to fixes: the rule of its label, the variable name a
\* rule-3 label holds, and the "(n instances)" number where the label has one
Fix(rule, var, instances) == [rule |-> rule, var |-> var, instances |-> instances]

Nothing == [msg |-> "", n |-> 0, lines |-> << >>]

\* print("No changes needed ...")
NoChangesMsg == [msg |-> "No changes needed", n |-> 0, lines |-> << >>]

\* print(f"Applied {len(fixes)} fix(es) to {target}:\n"), then one line per fix
AppliedMsg(fx) == [msg |-> "Applied", n |-> Len(fx), lines |-> fx]

(***************************************************************************)
(* Input files                                                             *)
(***************************************************************************)
Fragments ==
    { old_1a, old_1b, old_1c, old_echo,
      old_inc(<< "a" >>), old_inc(<< "b" >>), << "((", "b" >>, << "a", "++", "))" >>,
      old_guard, old_sort, old_ant, old_tuln,
      << "grep \"", ":", "8", "0", "\"" >>, << "grep \"", ":", "8", "0" >>,
      << "8", "0", "\"" >>, old_egrep,
      << "echo ok", NL >> }

RECURSIVE Flatten(_)
Flatten(fs) == IF fs = << >> THEN << >> ELSE Head(fs) \o Flatten(Tail(fs))

FilesOf(k) == { Flatten(fs) : fs \in UNION { [1..n -> Fragments] : n \in 0..k } }

Files == FilesOf(MaxFrags)

(***************************************************************************)
(* The run                                                                 *)
(***************************************************************************)
Order == << "read", "1a", "1b", "1c", "2", "3", "4", "5", "6a", "6b", "7a", "7b",
            "write", "done" >>

Init ==
    /\ \/ status = "ok" /\ target \in Files
       \/ status = "missing" /\ target = << >>
       \/ status = "unreadable" /\ target \in FilesOf(1)
    /\ pc = "read"
    /\ content = << >>
    /\ original = << >>
    /\ fixes = << >>
    /\ stdout = Nothing
    /\ reads = 0
    /\ wopens = 0
    /\ run = 1

\* with open(target, "r") as f: content = f.read(); original = content; fixes = []
Read ==
    /\ pc = "read"
    /\ status = "ok"
    /\ content' = target
    /\ original' = target
    /\ fixes' = << >>
    /\ reads' = reads + 1
    /\ pc' = "1a"
    /\ UNCHANGED <<status, target, stdout, wopens, run>>

\* variant: the failure is swallowed and the run goes on with an empty buffer
ReadFails_Continues ==
    /\ pc = "read"
    /\ status # "ok"
    /\ pc' = "1a"
    /\ UNCHANGED <<status, target, content, original, fixes, stdout, reads, wopens, run>>

\* open(target, "r") raises OSError: the interpreter prints the traceback and exits
ReadFails ==
    /\ pc = "read"
    /\ status # "ok"
    /\ pc' = "aborted"
    /\ UNCHANGED <<status, target, content, original, fixes, stdout, reads, wopens, run>>

\* variant: the replacement is made but fixes.append is missing
ReplaceOnce_Silent(rule, old, new) ==
    /\ IF Contains(content, old)
       THEN content' = StrReplaceFirst(content, old, new)
       ELSE UNCHANGED content
    /\ UNCHANGED fixes

\* if old in content: content = content.replace(old, new, 1); fixes.append(label)
ReplaceOnce(rule, old, new) ==
    /\ IF Contains(content, old)
       THEN /\ content' = StrReplaceFirst(content, old, new)
            /\ fixes' = Append(fixes, Fix(rule, << >>, << >>))
       ELSE UNCHANGED <<content, fixes>>

\* variant: the `if old in content` test is missing
ReplaceEvery_NoGuard(rule, old, new) ==
    /\ content' = StrReplace(content, old, new)
    /\ fixes' = Append(fixes, Fix(rule, << >>, << >>))

\* if old in content: content = content.replace(old, new); fixes.append(label)
ReplaceEvery(rule, old, new) ==
    /\ IF Contains(content, old)
       THEN /\ content' = StrReplace(content, old, new)
            /\ fixes' = Append(fixes, Fix(rule, << >>, << >>))
       ELSE UNCHANGED <<content, fixes>>

\* n = content.count(old); if n: content = content.replace(old, new);
\* fixes.append(f"... ({n} instances)")
ReplaceCounted(rule, old, new) ==
    /\ LET n == StrCount(content, old)
       IN IF n > 0
          THEN /\ content' = StrReplace(content, old, new)
               /\ fixes' = Append(fixes, Fix(rule, << >>, << n >>))
          ELSE UNCHANGED <<content, fixes>>

Rule1a ==
    /\ pc = "1a"
    /\ ReplaceOnce("1a", old_1a, new_1a)
    /\ pc' = "1b"
    /\ UNCHANGED <<status, target, original, stdout, reads, wopens, run>>

Rule1b ==
    /\ pc = "1b"
    /\ ReplaceOnce("1b", old_1b, new_1b)
    /\ pc' = "1c"
    /\ UNCHANGED <<status, target, original, stdout, reads, wopens, run>>

Rule1c ==
    /\ pc = "1c"
    /\ ReplaceOnce("1c", old_1c, new_1c)
    /\ pc' = "2"
    /\ UNCHANGED <<status, target, original, stdout, reads, wopens, run>>

Rule2 ==
    /\ pc = "2"
    /\ ReplaceCounted("2", old_echo, new_echo)
    /\ pc' = "3"
    /\ UNCHANGED <<status, target, original, stdout, reads, wopens, run>>

\* variant: content.replace(old_inc, new_inc, 1)
RECURSIVE IncLoop_First(_, _, _)
IncLoop_First(names, c, fx) ==
    IF names = << >> THEN [content |-> c, fixes |-> fx]
    ELSE LET var == Head(names)
             n == StrCount(c, old_inc(var))
         IN IF n > 0
            THEN IncLoop_First(Tail(names), StrReplaceFirst(c, old_inc(var), new_inc(var)),
                               Append(fx, Fix("3", var, << n >>)))
            ELSE IncLoop_First(Tail(names), c, fx)

\* for var in <names>: n = content.count(old_inc); if n > 0: replace, append
RECURSIVE IncLoop(_, _, _)
IncLoop(names, c, fx) ==
    IF names = << >> THEN [content |-> c, fixes |-> fx]
    ELSE LET var == Head(names)
             n == StrCount(c, old_inc(var))
         IN IF n > 0
            THEN IncLoop(Tail(names), StrReplace(c, old_inc(var), new_inc(var)),
                         Append(fx, Fix("3", var, << n >>)))
            ELSE IncLoop(Tail(names), c, fx)

\* plusplus = re.findall(...); for var in sorted(set(plusplus)): ...
Rule3 ==
    /\ pc = "3"
    /\ LET plusplus == FindAll(content)
           r == IncLoop(Sorted(Range(plusplus)), content, fixes)
       IN /\ content' = r.content
          /\ fixes' = r.fixes
    /\ pc' = "4"
    /\ UNCHANGED <<status, target, original, stdout, reads, wopens, run>>

Rule4 ==
    /\ pc = "4"
    /\ ReplaceEvery("4", old_guard, new_guard)
    /\ pc' = "5"
    /\ UNCHANGED <<status, target, original, stdout, reads, wopens, run>>

Rule5 ==
    /\ pc = "5"
    /\ ReplaceEvery("5", old_sort, new_sort)
    /\ pc' = "6a"
    /\ UNCHANGED <<status, target, original, stdout, reads, wopens, run>>

Rule6a ==
    /\ pc = "6a"
    /\ ReplaceCounted("6a", old_ant, new_ant)
    /\ pc' = "6b"
    /\ UNCHANGED <<status, target, original, stdout, reads, wopens, run>>

Rule6b ==
    /\ pc = "6b"
    /\ ReplaceCounted("6b", old_tuln, new_tuln)
    /\ pc' = "7a"
    /\ UNCHANGED <<status, target, original, stdout, reads, wopens, run>>

\* variant: the `if new_content != content` test is missing
Rule7a_Always ==
    /\ pc = "7a"
    /\ content' = ReSub(content)
    /\ fixes' = Append(fixes, Fix("7a", << >>, << >>))
    /\ pc' = "7b"
    /\ UNCHANGED <<status, target, original, stdout, reads, wopens, run>>

\* new_content = re.sub(...); if new_content != content: content = new_content; append
Rule7a ==
    /\ pc = "7a"
    /\ LET new_content == ReSub(content)
       IN IF new_content # content
          THEN /\ content' = new_content
               /\ fixes' = Append(fixes, Fix("7a", << >>, << >>))
          ELSE UNCHANGED <<content, fixes>>
    /\ pc' = "7b"
    /\ UNCHANGED <<status, target, original, stdout, reads, wopens, run>>

Rule7b ==
    /\ pc = "7b"
    /\ ReplaceEvery("7b", old_egrep, new_egrep)
    /\ pc' = "write"
    /\ UNCHANGED <<status, target, original, stdout, reads, wopens, run>>

\* if content == original: print("No changes needed ..."); sys.exit(0)
NoChanges ==
    /\ pc = "write"
    /\ content = original
    /\ stdout' = NoChangesMsg
    /\ pc' = "done"
    /\ UNCHANGED <<status, target, content, original, fixes, reads, wopens, run>>

\* variant: the file is rewritten whether or not the buffer changed
WriteBack_Always ==
    /\ pc = "write"
    /\ target' = content
    /\ wopens' = wopens + 1
    /\ stdout' = AppliedMsg(fixes)
    /\ pc' = "done"
    /\ UNCHANGED <<status, content, original, fixes, reads, run>>

\* with open(target, "w") as f: f.write(content); print(...)
WriteBack ==
    /\ pc = "write"
    /\ content # original
    /\ target' = content
    /\ wopens' = wopens + 1
    /\ stdout' = AppliedMsg(fixes)
    /\ pc' = "done"
    /\ UNCHANGED <<status, content, original, fixes, reads, run>>

\* the patcher is started again on the file the finished run left
Rerun ==
    /\ pc = "done"
    /\ run < MaxRuns
    /\ run' = run + 1
    /\ pc' = "read"
    /\ content' = << >>
    /\ original' = << >>
    /\ fixes' = << >>
    /\ stdout' = Nothing
    /\ reads' = 0
    /\ wopens' = 0
    /\ UNCHANGED <<status, target>>

Next ==
    \/ Read
    \/ ReadFails
    \/ Rule1a
    \/ Rule1b
    \/ Rule1c
    \/ Rule2
    \/ Rule3
    \/ Rule4
    \/ Rule5
    \/ Rule6a
    \/ Rule6b
    \/ Rule7a
    \/ Rule7b
    \/ NoChanges
    \/ WriteBack

Spec == Init /\ [][Next]_vars

NextTwice == Next \/ Rerun

SpecTwice == Init /\ [][NextTwice]_vars

(***************************************************************************)
(* Vocabulary of the properties: occurrences stated by position            *)
(***************************************************************************)
Rules == {"1a", "1b", "1c", "2", "3", "4", "5", "6a", "6b", "7a", "7b"}

LiteralRules == Rules \ {"3", "7a"}

OldOf == [r \in LiteralRules |->
            CASE r = "1a" -> old_1a [] r = "1b" -> old_1b [] r = "1c" -> old_1c
              [] r = "2" -> old_echo [] r = "4" -> old_guard [] r = "5" -> old_sort
              [] r = "6a" -> old_ant [] r = "6b" -> old_tuln [] r = "7b" -> old_egrep]

\* the positions at which pat occurs in s
Occ(s, pat) == { i \in 1..Len(s) : StartsAt(s, pat, i) }

\* <<i, j>>: (( at i, a variable name in i+1..j-1, ++ at j and )) at j+1
IncSites(s) ==
    UNION { { <<i, j>> : j \in { k \in (i + 2)..(Len(s) - 1) :
                                   /\ s[k] = "++"
                                   /\ s[k + 1] = "))"
                                   /\ \A m \in (i + 1)..(k - 1) : s[m] \in WordChars } }
            : i \in { k \in 1..Len(s) : s[k] = "((" } }

IncName(s, site) == SubSeq(s, site[1] + 1, site[2] - 1)

IncNames(s) == { IncName(s, site) : site \in IncSites(s) }

IncSitesOf(s, v) == { site \in IncSites(s) : IncName(s, site) = v }

\* <<i, j>>: grep " at i, : at i+1, digits in i+2..j-1 and " at j
PortSites(s) ==
    UNION { { <<i, j>> : j \in { k \in (i + 3)..Len(s) :
                                   /\ s[k] = "\""
                                   /\ \A m \in (i + 2)..(k - 1) : s[m] \in Digits } }
            : i \in { k \in 1..(Len(s) - 1) : s[k] = "grep \"" /\ s[k + 1] = ":" } }

Present(r, s) ==
    CASE r = "3" -> IncSites(s) # {}
      [] r = "7a" -> PortSites(s) # {}
      [] OTHER -> Occ(s, OldOf[r]) # {}

NoPattern(s) == \A r \in Rules : ~Present(r, s)

\* the entries the step appended to the report
Added == SubSeq(fixes', Len(fixes) + 1, Len(fixes'))

AppendOnly == Len(fixes') >= Len(fixes) /\ SubSeq(fixes', 1, Len(fixes)) = fixes

\* the text made of the pieces f[1], ..., f[n]
RECURSIVE JoinTo(_, _)
JoinTo(f, n) == IF n = 0 THEN << >> ELSE JoinTo(f, n - 1) \o f[n]

\* s with every site <<i, j>> of sites, which covers i..j+d, rewritten to new[site]
Rewritten(s, sites, d, new) ==
    JoinTo([k \in 1..Len(s) |->
              IF \E st \in sites : st[1] = k
              THEN new[CHOOSE st \in sites : st[1] = k]
              ELSE IF \E st \in sites : st[1] < k /\ k <= st[2] + d
                   THEN << >> ELSE << s[k] >>],
           Len(s))

(***************************************************************************)
(* Properties                                                              *)
(***************************************************************************)
\* C1: idempotence.  A second run, on the file the first run left, records no
\* report entry, does not open the file for writing and prints the
\* "No changes needed" status -- for every rule, also when the input holds
\* the block of rule 1a, 1b or 1c more than once.
C1_SecondRunIsNoOp ==
    (run = 2 /\ pc = "done") =>
        /\ fixes = << >>
        /\ wopens = 0
        /\ stdout = NoChangesMsg

\* C2: a file in which no rule pattern occurs is never opened for writing,
\* stays as it was, leaves the report empty and gets the no-op status.
C2_NoPatternNoWrite ==
    (run = 1 /\ reads = 1 /\ NoPattern(original)) =>
        /\ wopens = 0
        /\ target = original
        /\ fixes = << >>
        /\ (pc = "done" => stdout = NoChangesMsg)

C2_Witness ==
    /\ pc = "done"
    /\ NoPattern(original)
    /\ Len(original) >= 6
    /\ \E i \in 1..Len(original) : original[i] = "grep \""
    /\ \E i \in 1..Len(original) : original[i] = "(("

EntryIffChanged ==
    pc \in Rules =>
        /\ AppendOnly
        /\ \A k \in 1..Len(Added) : Added[k].rule = pc
        /\ (Added # << >>) <=> (content' # content)
        /\ (content' # content) <=> Present(pc, content)

\* C3: a rule's step appends an entry of that rule exactly when it changes
\* the buffer, and it changes the buffer exactly when the rule's pattern
\* occurs in it; a file holding only rule 6a's pattern ends with a report
\* whose only entry is 6a's.
C3_EntryIffChanged ==
    /\ [][EntryIffChanged]_vars
    /\ [](( /\ pc = "done"
            /\ Present("6a", original)
            /\ \A r \in Rules \ {"6a"} : ~Present(r, original))
          => (Len(fixes) = 1 /\ fixes[1].rule = "6a"))

C3_Witness ==
    /\ pc = "done"
    /\ Present("6a", original)
    /\ \A r \in Rules \ {"6a"} : ~Present(r, original)
    /\ Len(fixes) = 1
    /\ Len(original) > Len(old_ant)

PosOf(p) == CHOOSE k \in 1..Len(Order) : Order[k] = p

LifecycleStep ==
    /\ (pc' # pc /\ pc' # "aborted") => PosOf(pc') = PosOf(pc) + 1
    /\ (reads' # reads) => (pc = "read" /\ reads = 0 /\ reads' = 1
                              /\ content' = target /\ original' = target)
    /\ (pc # "read") => original' = original
    /\ (pc \in Rules) => (target' = target /\ wopens' = wopens)
    /\ (target' # target \/ wopens' # wopens) =>
          (pc = "write" /\ wopens = 0 /\ wopens' = 1 /\ target' = content)

\* C7: the file is read once, before any rule; the rules run in the order
\* 1a, 1b, 1c, 2, 3, 4, 5, 6a, 6b, 7a, 7b and touch only the buffer; the file
\* is written at most once, after the last rule, and exactly when the final
\* buffer differs from the content read.
C7_Lifecycle ==
    /\ [][LifecycleStep]_vars
    /\ [](pc = "done" =>
            /\ reads = 1
            /\ (wopens = 1) <=> (content # original)
            /\ (wopens = 0) <=> (content = original)
            /\ target = content)

C7_Witness ==
    /\ pc = "done"
    /\ wopens = 1
    /\ reads = 1
    /\ Len(fixes) >= 3
    /\ target # original

UntouchedOnFailure == status # "ok" => (target' = target /\ status' = status)

\* C8: when the target is missing or unreadable the run aborts before any
\* rule: no entry is recorded, nothing is printed, no file is written or
\* created.
C8_ReadFailureAborts ==
    /\ [](status # "ok" =>
            /\ pc \in {"read", "aborted"}
            /\ reads = 0
            /\ wopens = 0
            /\ fixes = << >>
            /\ stdout = Nothing)
    /\ [][UntouchedOnFailure]_vars

C8_Witness == pc = "aborted" /\ status = "missing"

\* C10: once the file is read, the report is non-empty exactly when the
\* buffer differs from the content read; so "Applied" is never printed with
\* a count of 0 and the no-op exit never discards an entry.
C10_ReportIffChanged ==
    /\ (reads = 1) => ((fixes # << >>) <=> (content # original))
    /\ (stdout.msg = "Applied") => (stdout.n > 0 /\ stdout.lines = fixes)
    /\ (stdout = NoChangesMsg) => fixes = << >>

C10_Witness ==
    /\ pc = "done"
    /\ stdout.msg = "Applied"
    /\ stdout.n >= 3
    /\ content # original

\* the number the label of an entry holds, for the rule at pc
CountOf(e) ==
    CASE pc = "3" -> Cardinality(IncSitesOf(content, e.var))
      [] pc = "7a" -> Cardinality(PortSites(content))
      [] OTHER -> Cardinality(Occ(content, OldOf[pc]))

EveryGlobalRuleCounts ==
    pc \in {"2", "3", "4", "5", "6a", "6b", "7a", "7b"} =>
        \A k \in 1..Len(Added) : Added[k].instances = << CountOf(Added[k]) >>

CountedRulesCount ==
    /\ pc \in {"2", "3", "6a", "6b"} =>
          \A k \in 1..Len(Added) :
              /\ Added[k].instances = << CountOf(Added[k]) >>
              /\ CountOf(Added[k]) >= 1
    /\ pc \in {"2", "6a", "6b"} => Occ(content', OldOf[pc]) = {}
    /\ pc \in {"4", "5", "7a", "7b"} =>
          \A k \in 1..Len(Added) : Added[k].instances = << >>

\* C4 as stated: every rule that replaces all occurrences (2, 3, 4, 5, 6a, 6b,
\* 7a, 7b) records in its entry the number of occurrences of its pattern in
\* the buffer just before it ran.
C4_AllGlobalRulesCount == [][EveryGlobalRuleCounts]_vars

\* C4 amended: the entries of rules 2, 3, 6a and 6b hold the number of
\* occurrences of the pattern in the buffer just before the rule ran, and the
\* rule leaves none of them; the entries of rules 4, 5, 7a and 7b hold no
\* number.
C4_CountedRulesCount == [][CountedRulesCount]_vars

C4_Witness ==
    /\ pc = "done"
    /\ \E k \in 1..Len(fixes) : fixes[k].rule \in {"2", "6a", "6b"} /\ fixes[k].instances = << 2 >>
    /\ \E k \in 1..Len(fixes) : fixes[k].rule \in {"4", "5", "7a", "7b"}

IncExpected(s) ==
    Rewritten(s, IncSites(s), 1,
              [st \in IncSites(s) |->
                 IncName(s, st) \o << "=$", "((" >> \o IncName(s, st) \o << " + 1", "))" >>])

SafeIncrement ==
    pc = "3" =>
        /\ IncSites(content') = {}
        /\ content' = IncExpected(content)
        /\ AppendOnly
        /\ \A k \in 1..Len(Added) :
              /\ Added[k].rule = "3"
              /\ Added[k].var \in IncNames(content)
              /\ Added[k].instances = << Cardinality(IncSitesOf(content, Added[k].var)) >>
        /\ \A v \in IncNames(content) :
              Cardinality({ k \in 1..Len(Added) : Added[k].var = v }) = 1

\* C5: after rule 3 no ((v++)) is left, for any variable name v; every former
\* occurrence reads v=$((v + 1)) and the rest of the buffer is as before; the
\* report gets one rule-3 entry per distinct name, holding the number of
\* occurrences of that name; and no later rule brings the idiom back.
C5_SafeIncrement ==
    /\ [][SafeIncrement]_vars
    /\ [](pc \in {"4", "5", "6a", "6b", "7a", "7b", "write", "done"} => IncSites(content) = {})

C5_Witness ==
    /\ pc = "4"
    /\ Cardinality(IncNames(original)) = 2
    /\ Cardinality(IncSites(original)) = 3
    /\ Len(fixes) = 2
    /\ fixes[1].var = << "a" >>
    /\ fixes[2].var = << "b" >>

PortExpected(s) ==
    Rewritten(s, PortSites(s), 0,
              [st \in PortSites(s) |->
                 << "grep \"", "[.]" >> \o SubSeq(s, st[1] + 2, st[2] - 1)
                    \o << "[[:space:]]", "\"" >>])

PortRewrite ==
    /\ pc = "7a" =>
          /\ content' = PortExpected(content)
          /\ PortSites(content') = {}
          /\ AppendOnly
          /\ Added = IF PortSites(content) # {} THEN << Fix("7a", << >>, << >>) >> ELSE << >>
          /\ Cardinality(Occ(content', old_egrep)) = Cardinality(Occ(content, old_egrep))
    /\ (pc = "7b" /\ Occ(content, old_egrep) # {}) =>
          /\ Added = << Fix("7b", << >>, << >>) >>
          /\ Occ(content', old_egrep) = {}
          /\ Cardinality(Occ(content', new_egrep)) =
                Cardinality(Occ(content, new_egrep)) + Cardinality(Occ(content, old_egrep))

\* C6: rule 7a rewrites every grep ":N", N a non-empty digit string, to
\* grep "[.]N[[:space:]]" with the same N and leaves the rest of the buffer
\* unchanged; it records exactly one 7a entry when an occurrence existed; it
\* does not alter the compound pattern of rule 7b, which rule 7b then
\* rewrites.
C6_PortRewrite == [][PortRewrite]_vars

C6_Witness ==
    /\ pc = "write"
    /\ PortSites(original) # {}
    /\ Occ(original, old_egrep) # {}
    /\ Occ(content, fix_port_grep(<< "8", "0", "8", "0" >>)) # {}
    /\ Occ(content, new_egrep) # {}
    /\ Len(fixes) = 2

\* the filtering text rule 4 adds
skip_text == << NL, WS, "# Skip CD-ROM / non-disk devices", NL,
                WS, "iostat -En \"$disk_base\" 2>/dev/null | grep -qi \"CD-ROM\" && continue" >>

PureInsertion ==
    (pc = "4" /\ Occ(content, old_guard) # {}) =>
        content' = Rewritten(content, { <<i, i + Len(old_guard) - 1>> : i \in Occ(content, old_guard) }, 0,
                             [st \in { <<i, i + Len(old_guard) - 1>> : i \in Occ(content, old_guard) } |->
                                old_guard \o skip_text])

InsertionAndBlankLine ==
    (pc = "4" /\ Occ(content, old_guard) # {}) =>
        /\ content' = Rewritten(content, { <<i, i + Len(old_guard) - 1>> : i \in Occ(content, old_guard) }, 0,
                                [st \in { <<i, i + Len(old_guard) - 1>> : i \in Occ(content, old_guard) } |->
                                   SubSeq(old_guard, 1, 3) \o SubSeq(old_guard, 5, Len(old_guard))
                                      \o skip_text])
        /\ old_guard[4] = WS
        /\ Occ(content', old_guard) = {}

\* C9 as stated: rule 4 is a pure insertion -- every matched block stays as
\* it was and the filtering text is added right after it.
C9_PureInsertion == [][PureInsertion]_vars

\* C9 amended: rule 4 keeps the guard line and the base-name line of every
\* matched block, empties the whitespace-only line between them (its 12
\* spaces are removed), and adds the filtering text right after the block;
\* the rest of the buffer is as before.
C9_InsertionAndBlankLine == [][InsertionAndBlankLine]_vars

C9_Witness ==
    /\ pc = "5"
    /\ Cardinality(Occ(original, old_guard)) = 2
    /\ Cardinality(Occ(content, new_guard)) = 2
    /\ \E k \in 1..Len(fixes) : fixes[k].rule = "4"

====
